---- MODULE Spec2Model ----
(***************************************************************************)
(* Git Account Manager: the account registry (AccountManager), the secret  *)
(* store (SecretStorageService), the repository resolver                   *)
(* (RepoMappingService), the identity applier (GitService), the status     *)
(* indicator (StatusBarManager) and the commands, as a state machine over  *)
(* their public methods.  Strings of the program are TLA+ strings; an      *)
(* optional value (T | undefined) returned by a lookup is a sequence of    *)
(* length 0 or 1.  An action constrains the variables of the component it  *)
(* belongs to; each next-state relation says which others stay as they are.*)
(***************************************************************************)
EXTENDS Naturals, Sequences, FiniteSets, TLC

\* ------------------------------------------------------------- bounds
\* accounts held by the registry at once
MaxAccounts == 2
\* millisecond ticks of Date.now() that pass during a run
MaxClock == 2
\* addSSHConfigEntry calls that wait at their await at once
MaxInFlight == 2

\* ----------------------------------------------------------- constants
\* the JavaScript value undefined, where a string may stand instead
Undefined == "undefined"

STORAGE_KEYS == [ACCOUNTS |-> "gitManager.accounts",
                 MAPPINGS |-> "gitManager.repoMappings",
                 PAT_PREFIX |-> "gitManager.pat."]

AuthTypes == {"ssh", "pat"}

\* ------------------------------------------------------------ variables
VARIABLES
    accounts,        \* AccountManager.accounts: sequence of GitAccount
    globalState,     \* context.globalState: key -> stored value
    secretStorage,   \* vscode.SecretStorage: the keys that hold a token
    now,             \* Date.now()
    issued,          \* history: every id generateId has returned to addAccount
    mappings,        \* RepoMappingService.mappings: Map in insertion order
    files,           \* <repoPath>/.gitaccount on disk, per repository
    remotes,         \* `git config --get remote.origin.url`, per repository
    last,            \* the last call and what it returned
    userConfig,      \* local `git config user.name / user.email`, per repository
    sshConfig,       \* ~/.ssh/config: its lines, in order
    ensuring,        \* addSSHConfigEntry calls suspended at their await
    held,            \* the array a caller got from getAccounts
    currentAccountId \* StatusBarManager.currentAccountId

vars == <<accounts, globalState, secretStorage, now, issued, mappings, files,
          remotes, last, userConfig, sshConfig, ensuring, held,
          currentAccountId>>

\* the variables of the identity applier, of a caller of the registry and of
\* the status indicator
coreVars == <<accounts, globalState, secretStorage, now, issued, mappings,
              files>>

gitVars == <<userConfig, sshConfig, ensuring>>

uiVars == <<held, currentAccountId>>

\* ------------------------------------------------------- string helpers
\* String.prototype.toLowerCase on the strings of the model
toLowerCase(s) ==
    CASE s = "Work" -> "work"
      [] s = "WORK" -> "work"
      [] s = "Home" -> "home"
      [] OTHER -> s

\* String.prototype.includes
includes(s, sub) ==
    \E i \in 0..Len(s) :
        /\ i + Len(sub) <= Len(s)
        /\ SubSeq(s, i + 1, i + Len(sub)) = sub

\* JavaScript truthiness of a string | undefined
truthy(s) == s # Undefined /\ s # ""

\* Array.prototype.findIndex, 1-based, 0 standing for -1; hits[i] is what the
\* callback returns for the i-th element
findIndex(hits) ==
    IF \E i \in DOMAIN hits : hits[i]
    THEN CHOOSE i \in DOMAIN hits : hits[i] /\ \A j \in 1..(i - 1) : ~hits[j]
    ELSE 0

\* Array.prototype.find: << >> for undefined, <<element>> otherwise
find(seq, hits) ==
    LET i == findIndex(hits) IN IF i = 0 THEN << >> ELSE <<seq[i]>>

\* Array.prototype.splice(index, 1)
splice1(seq, index) ==
    SubSeq(seq, 1, index - 1) \o SubSeq(seq, index + 1, Len(seq))

\* ------------------------------------------------------ SecretStorageService
secretKey(accountId) == STORAGE_KEYS.PAT_PREFIX \o accountId

storeToken(store, accountId) == store \cup {secretKey(accountId)}

deleteToken(store, accountId) == store \ {secretKey(accountId)}

hasToken(store, accountId) == secretKey(accountId) \in store

\* ------------------------------------------------------------ AccountManager
\* `account_${Date.now()}_${Math.random().toString(36).substr(2, 9)}`
generateId(ts, rnd) == "account_" \o ToString(ts) \o "_" \o rnd

getAccountById(accs, id) == find(accs, [i \in DOMAIN accs |-> accs[i].id = id])

getAccountByName(accs, name) ==
    find(accs, [i \in DOMAIN accs |->
                    toLowerCase(accs[i].name) = toLowerCase(name)])

\* saveAccounts: globalState.update(STORAGE_KEYS.ACCOUNTS, this.accounts)
saveAccounts(gs, accs) == [gs EXCEPT !.accounts = accs]

\* loadAccounts: globalState.get(STORAGE_KEYS.ACCOUNTS, [])
loadAccounts(gs) == gs.accounts

Call(op, path, id, name, result) ==
    [op |-> op, path |-> path, id |-> id, name |-> name, result |-> result]

\* a GitAccount without its id (Omit<GitAccount, 'id'>); Undefined stands for
\* an optional property that is left out
Draft(name, username, email, authType, sshKeyPath, sshHost) ==
    [name |-> name, username |-> username, email |-> email,
     authType |-> authType, sshKeyPath |-> sshKeyPath, sshHost |-> sshHost]

\* { ...account, id }
withId(account, id) ==
    [id |-> id, name |-> account.name, username |-> account.username,
     email |-> account.email, authType |-> account.authType,
     sshKeyPath |-> account.sshKeyPath, sshHost |-> account.sshHost]

\* addAccount(account, pat): no validation of the draft; the id is generated
\* from Date.now() (ts, which never runs backwards here) and Math.random()
\* (rnd), the record pushed, the list saved, the token stored for a 'pat'
\* account.
addAccount(account, pat, ts, rnd) ==
    /\ Len(accounts) < MaxAccounts
    /\ ts >= now
    /\ now' = ts
    /\ LET newAccount == withId(account, generateId(ts, rnd))
       IN /\ accounts' = Append(accounts, newAccount)
          /\ globalState' = saveAccounts(globalState, accounts')
          /\ secretStorage' = IF truthy(pat) /\ account.authType = "pat"
                                THEN storeToken(secretStorage, newAccount.id)
                                ELSE secretStorage
          /\ issued' = issued \cup {newAccount.id}
          /\ last' = Call("add", "", newAccount.id, account.name, "ok")
    /\ UNCHANGED <<mappings, files, remotes>>

\* removeAccount(id): first record with the id; the token is deleted only when
\* the removed record's authType is 'pat' at that moment.
removeAccount(id) ==
    LET index == findIndex([i \in DOMAIN accounts |-> accounts[i].id = id]) IN
    /\ IF index = 0
         THEN /\ last' = Call("remove", "", id, "", "false")
              /\ UNCHANGED <<accounts, globalState, secretStorage>>
         ELSE LET account == accounts[index] IN
              /\ accounts' = splice1(accounts, index)
              /\ globalState' = saveAccounts(globalState, accounts')
              /\ secretStorage' = IF account.authType = "pat"
                                    THEN deleteToken(secretStorage, id)
                                    ELSE secretStorage
              /\ last' = Call("remove", "", id, "", "true")
    /\ UNCHANGED <<now, issued, mappings, files, remotes>>

\* Object.assign(account, updates) for updates: Partial<Omit<GitAccount,'id'>>;
\* Undefined stands for a key the updates object does not have.
assign(account, updName, updAuthType) ==
    [account EXCEPT
        !.name = IF updName = Undefined THEN @ ELSE updName,
        !.authType = IF updAuthType = Undefined THEN @ ELSE updAuthType]

\* updateAccount(id, updates): merges in place and saves; no validation, and
\* the secret store is not touched.
updateAccount(id, updName, updAuthType) ==
    LET index == findIndex([i \in DOMAIN accounts |-> accounts[i].id = id]) IN
    /\ IF index = 0
         THEN /\ last' = Call("update", "", id, "", "false")
              /\ UNCHANGED <<accounts, globalState>>
         ELSE /\ accounts' = [accounts EXCEPT
                                ![index] = assign(@, updName, updAuthType)]
              /\ globalState' = saveAccounts(globalState, accounts')
              /\ last' = Call("update", "", id, "", "true")
    /\ UNCHANGED <<secretStorage, now, issued, mappings, files, remotes>>

\* getAccounts(): [...this.accounts], a new array of the same account
\* objects.  The array a caller holds is a sequence of references: the place
\* of the object in this.accounts, 0 for an object the registry has let go.
getAccounts(accs) == [i \in 1..Len(accs) |-> i]

GetAccounts ==
    /\ held' = getAccounts(accounts)
    /\ last' = Call("list", "", "", "", "")
    /\ UNCHANGED <<coreVars, remotes, gitVars, currentAccountId>>

\* the references of a held array after this.accounts.splice(index, 1)
afterSplice(refs, index) ==
    [k \in 1..Len(refs) |->
        IF refs[k] = index THEN 0
        ELSE IF refs[k] > index /\ index > 0 THEN refs[k] - 1
        ELSE refs[k]]

\* caller: held.splice(k, 1), a change to the array it was handed
CallerSplices(k) ==
    /\ k \in 1..Len(held)
    /\ held' = splice1(held, k)
    /\ last' = Call("callerSplices", "", "", "", "")
    /\ UNCHANGED <<coreVars, remotes, gitVars, currentAccountId>>

\* caller: held[k].name = name, a change to an account record of the array;
\* the record is the registry's own object while the registry still has it
CallerSetsName(k, name) ==
    /\ k \in 1..Len(held)
    /\ accounts' = IF held[k] = 0 THEN accounts
                   ELSE [accounts EXCEPT ![held[k]].name = name]
    /\ last' = Call("callerSetsName", "", "", name, "")
    /\ UNCHANGED <<globalState, secretStorage, now, issued, mappings, files,
                   remotes, gitVars, uiVars>>

\* -------------------------------------------------------- .gitaccount file
\* A JSON property value: absent, a string, or a truthy value that is no
\* string (a number, true, an array, an object).
NoField == [kind |-> "undefined", val |-> ""]

StringField(str) == [kind |-> "string", val |-> str]

NumberField == [kind |-> "number", val |-> "5"]

\* What the path <repoPath>/.gitaccount holds.  kind: "missing" (existsSync is
\* false), "unreadable" (readFileSync throws), "malformed" (JSON.parse throws),
\* "null" (the JSON text null), "scalar" (JSON text of a truthy value that is
\* no object with these properties, such as 5 or []), "object".
FileOf(kind, accountId, accountName) ==
    [kind |-> kind, accountId |-> accountId, accountName |-> accountName]

NoFile == FileOf("missing", NoField, NoField)

\* JSON.stringify(config, null, 2) as written by writeFileSync: a property
\* whose value is undefined is left out.
JSON_stringify(config) ==
    FileOf("object",
           IF config.accountId = Undefined THEN NoField
           ELSE StringField(config.accountId),
           IF config.accountName = Undefined THEN NoField
           ELSE StringField(config.accountName))

\* JavaScript truthiness of a parsed property
fieldTruthy(field) ==
    \/ field.kind = "number"
    \/ field.kind = "string" /\ field.val # ""

\* readGitAccountFile(repoPath): << >> for undefined; every failure is caught
readGitAccountFile(file) ==
    IF file.kind \in {"missing", "unreadable", "malformed"} THEN << >>
    ELSE <<file>>

\* ------------------------------------------------------------- GitService
\* getRemoteUrl(cwd): the trimmed output, or undefined when git fails
getRemoteUrl(remote) == remote

\* the repository's local user.name and user.email; Undefined when unset
UserConfig(name, email) == [name |-> name, email |-> email]

NoUserConfig == UserConfig(Undefined, Undefined)

\* String.prototype.indexOf(ch, from - 1) + 1 for a one-character ch: the
\* first place at or after `from` that holds ch, 0 when there is none
indexOf(s, ch, from) ==
    IF \E i \in from..Len(s) : SubSeq(s, i, i) = ch
    THEN CHOOSE i \in from..Len(s) :
            /\ SubSeq(s, i, i) = ch
            /\ \A j \in from..(i - 1) : SubSeq(s, j, j) # ch
    ELSE 0

\* currentUrl.match(/^git@([^:]+):(.+)$/): << >> for null, else <<m1, m2>>
matchSshUrl(url) ==
    LET colon == indexOf(url, ":", 5) IN
    IF /\ Len(url) >= 4
       /\ SubSeq(url, 1, 4) = "git@"
       /\ colon >= 6
       /\ colon < Len(url)
    THEN <<SubSeq(url, 5, colon - 1), SubSeq(url, colon + 1, Len(url))>>
    ELSE << >>

\* what a call of the service did: the git commands it ran, in order, whether
\* it returned or threw, and the value it leaves in what it writes
Outcome(status, ran, value) == [status |-> status, ran |-> ran, value |-> value]

\* the word the shell hands to git for "${value}": the strings of the model
\* hold no character the shell expands inside double quotes
shellWord(value) == value

\* faulty variant: the name is written only once the email write succeeded
setUserConfig_Rollback(config, name, email, fails) ==
    IF fails \in {"user.name", "user.email"}
    THEN Outcome("threw", <<"config user.name", "config user.email">>, config)
    ELSE Outcome("returned", <<"config user.name", "config user.email">>,
                 UserConfig(shellWord(name), shellWord(email)))

\* setUserConfig(name, email, cwd) on the repository's user config; `fails`
\* names the git command that exits non-zero ("none": both succeed)
setUserConfig(config, name, email, fails) ==
    IF fails = "user.name"
    THEN Outcome("threw", <<"config user.name">>, config)
    ELSE IF fails = "user.email"
    THEN Outcome("threw", <<"config user.name", "config user.email">>,
                 [config EXCEPT !.name = shellWord(name)])
    ELSE Outcome("returned", <<"config user.name", "config user.email">>,
                 UserConfig(shellWord(name), shellWord(email)))

\* configureSSHForAccount(account, cwd) on the repository's origin URL
\* (Undefined: `git config --get remote.origin.url` fails, getRemoteUrl
\* catches); `fails` = "set-url": `git remote set-url` exits non-zero
configureSSHForAccount(account, remote, fails) ==
    LET currentUrl == getRemoteUrl(remote)
        match == matchSshUrl(currentUrl)
    IN IF account.authType # "ssh" \/ ~truthy(account.sshHost)
       THEN Outcome("returned", << >>, remote)
       ELSE IF ~truthy(currentUrl)
       THEN Outcome("returned", <<"config --get remote.origin.url">>, remote)
       ELSE IF match = << >>
       THEN Outcome("returned", <<"config --get remote.origin.url">>, remote)
       ELSE IF fails = "set-url"
       THEN Outcome("threw", <<"config --get remote.origin.url",
                               "remote set-url origin">>, remote)
       ELSE Outcome("returned", <<"config --get remote.origin.url",
                                  "remote set-url origin">>,
                    "git@" \o account.sshHost \o ":" \o match[2])

\* a call of the GitService and what came of it
GitCall(op, cwd, account, fails, outcome) ==
    [op |-> op, cwd |-> cwd, account |-> account, fails |-> fails,
     ran |-> outcome.ran, result |-> outcome.status]

SetUserConfig(name, email, cwd, fails) ==
    LET done == setUserConfig(userConfig[cwd], name, email, fails) IN
    /\ userConfig' = [userConfig EXCEPT ![cwd] = done.value]
    /\ last' = GitCall("setUserConfig", cwd,
                       [username |-> name, email |-> email], fails, done)
    /\ UNCHANGED <<coreVars, remotes, sshConfig, ensuring, uiVars>>

ConfigureSSHForAccount(account, cwd, fails) ==
    LET done == configureSSHForAccount(account, remotes[cwd], fails) IN
    /\ remotes' = [remotes EXCEPT ![cwd] = done.value]
    /\ last' = GitCall("configureSSHForAccount", cwd, account, fails, done)
    /\ UNCHANGED <<coreVars, userConfig, sshConfig, ensuring, uiVars>>

\* isSSHHostConfigured(hostAlias) on the lines of ~/.ssh/config: the text
\* includes `Host ${hostAlias}` (which holds no line break) when a line does;
\* a file that is missing or cannot be read has no lines
isSSHHostConfigured(lines, hostAlias) ==
    \E i \in 1..Len(lines) : includes(lines[i], "Host " \o hostAlias)

\* generateSSHConfigEntry(account): the lines of the entry, none for ''; the
\* template opens with a line break, which leaves a blank line after a file
\* whose last line is terminated
generateSSHConfigEntry(account) ==
    IF \/ account.authType # "ssh"
       \/ ~truthy(account.sshHost)
       \/ ~truthy(account.sshKeyPath)
    THEN << >>
    ELSE <<"",
           "# Git Account Manager - " \o account.name,
           "Host " \o account.sshHost,
           "    HostName github.com",
           "    User git",
           "    IdentityFile " \o account.sshKeyPath,
           "    IdentitiesOnly yes">>

\* the tail of addSSHConfigEntry, after the awaited check: mkdirSync when the
\* directory is missing, then appendFileSync; `fails` = "append": one of the
\* two throws
appendEntry(lines, account, configured, fails) ==
    IF configured THEN Outcome("returned", << >>, lines)
    ELSE IF fails = "append" THEN Outcome("threw", <<"append">>, lines)
    ELSE Outcome("returned", <<"append">>,
                 lines \o generateSSHConfigEntry(account))

\* addSSHConfigEntry(account), awaited by its caller with no other call in
\* flight
addSSHConfigEntry(lines, account, fails) ==
    IF account.authType # "ssh" \/ ~truthy(account.sshHost)
    THEN Outcome("returned", << >>, lines)
    ELSE IF generateSSHConfigEntry(account) = << >>
    THEN Outcome("returned", << >>, lines)
    ELSE appendEntry(lines, account,
                     isSSHHostConfigured(lines, account.sshHost), fails)

\* a call on ~/.ssh/config, the lines it found and what came of it
SshCall(op, account, fails, before, outcome) ==
    [op |-> op, account |-> account, fails |-> fails, before |-> before,
     ran |-> outcome.ran, result |-> outcome.status]

AddSSHConfigEntry(account, fails) ==
    LET done == addSSHConfigEntry(sshConfig, account, fails) IN
    /\ ensuring = << >>
    /\ sshConfig' = done.value
    /\ last' = SshCall("addSSHConfigEntry", account, fails, sshConfig, done)
    /\ UNCHANGED <<coreVars, remotes, userConfig, ensuring, uiVars>>

\* addSSHConfigEntry(account) up to `await this.isSSHHostConfigured(...)`:
\* the guards and the body of isSSHHostConfigured run at once, the rest of
\* the call waits as a microtask
AddSSHConfigEntry_Check(account) ==
    /\ Len(ensuring) < MaxInFlight
    /\ IF \/ account.authType # "ssh"
          \/ ~truthy(account.sshHost)
          \/ generateSSHConfigEntry(account) = << >>
         THEN /\ last' = SshCall("check", account, "none", sshConfig,
                                 Outcome("returned", << >>, sshConfig))
              /\ UNCHANGED ensuring
         ELSE /\ ensuring' = Append(ensuring,
                    [account |-> account,
                     configured |-> isSSHHostConfigured(sshConfig,
                                                        account.sshHost)])
              /\ last' = SshCall("check", account, "none", sshConfig,
                                 Outcome("suspended", << >>, sshConfig))
    /\ UNCHANGED <<coreVars, remotes, userConfig, sshConfig, uiVars>>

\* the call that has waited longest resumes after its await
AddSSHConfigEntry_Resume(fails) ==
    /\ ensuring # << >>
    /\ LET call == Head(ensuring)
           done == appendEntry(sshConfig, call.account, call.configured, fails)
       IN /\ sshConfig' = done.value
          /\ last' = SshCall("resume", call.account, fails, sshConfig, done)
    /\ ensuring' = Tail(ensuring)
    /\ UNCHANGED <<coreVars, remotes, userConfig, uiVars>>

\* environment: the user edits ~/.ssh/config while no call is in flight
EditSshConfig(lines) ==
    /\ ensuring = << >>
    /\ sshConfig' = lines
    /\ last' = SshCall("editSshConfig", << >>, "none", sshConfig,
                       Outcome("returned", << >>, lines))
    /\ UNCHANGED <<coreVars, remotes, userConfig, ensuring, uiVars>>

\* ------------------------------------------------------ RepoMappingService
\* Object.fromEntries(this.mappings): one property per key of the Map.  The
\* keys are workspace folder paths, none of them an array index, so the
\* properties keep the order of the Map.
fromEntries(maps) ==
    [i \in 1..Len(maps) |-> [key |-> maps[i].repoPath, value |-> maps[i]]]

\* new Map(Object.entries(saved))
mapOfEntries(saved) == [i \in 1..Len(saved) |-> saved[i].value]

\* faulty variant: nothing is written
saveMappings_Stale(gs, maps) == gs

\* saveMappings: globalState.update(STORAGE_KEYS.MAPPINGS, fromEntries(map))
saveMappings(gs, maps) == [gs EXCEPT !.mappings = fromEntries(maps)]

\* loadMappings: new Map(Object.entries(globalState.get(MAPPINGS, {})))
loadMappings(gs) == mapOfEntries(gs.mappings)

\* AccountManager.initialize() and RepoMappingService.initialize() of a fresh
\* pair of services over the same globalState
Initialize ==
    /\ accounts' = loadAccounts(globalState)
    /\ mappings' = loadMappings(globalState)
    /\ last' = Call("initialize", "", "", "", "")
    /\ UNCHANGED <<globalState, secretStorage, now, issued, files, remotes>>

\* Map.prototype.get
getMapping(maps, repoPath) ==
    find(maps, [i \in DOMAIN maps |-> maps[i].repoPath = repoPath])

\* Map.prototype.set: an existing key keeps its place, a new one goes last
mapSet(maps, mapping) ==
    LET i == findIndex([k \in DOMAIN maps |->
                          maps[k].repoPath = mapping.repoPath]) IN
    IF i = 0 THEN Append(maps, mapping) ELSE [maps EXCEPT ![i] = mapping]

\* Map.prototype.delete
mapDelete(maps, repoPath) ==
    LET i == findIndex([k \in DOMAIN maps |-> maps[k].repoPath = repoPath]) IN
    IF i = 0 THEN maps ELSE splice1(maps, i)

Returned(value) == [status |-> "returned", value |-> value]

Threw(error) == [status |-> "threw", value |-> error]

\* strategy 2: the first mapping, in Map order, whose remotePattern is truthy
\* and contained in the remote URL
matchRemotePattern(maps, remoteUrl) ==
    IF truthy(remoteUrl)
    THEN find(maps, [i \in DOMAIN maps |->
                        /\ truthy(maps[i].remotePattern)
                        /\ includes(remoteUrl, maps[i].remotePattern)])
    ELSE << >>

\* strategies 2 to 4 of detectAccountForRepo
detectByMappings(maps, remote, repoPath) ==
    LET byPattern == matchRemotePattern(maps, getRemoteUrl(remote))
        directMapping == getMapping(maps, repoPath)
    IN IF byPattern # << >> THEN Returned(byPattern[1].accountId)
       ELSE IF directMapping # << >> THEN Returned(directMapping[1].accountId)
       ELSE Returned(Undefined)

\* getAccountByName(fileConfig.accountName) when the parsed value is no
\* string: name.toLowerCase is not a function, raised at the first account
\* the find callback visits
nameLookupThrows(accs, field) == field.kind # "string" /\ Len(accs) > 0

\* strategy 1 of detectAccountForRepo: << >> when the file decides nothing
detectByFile(accs, file) ==
    LET read == readGitAccountFile(file)
        fileConfig == IF read # << >> /\ read[1].kind # "null" THEN read ELSE << >>
        byId == IF fileConfig # << >>
                   /\ fileConfig[1].kind = "object"
                   /\ fieldTruthy(fileConfig[1].accountId)
                   /\ fileConfig[1].accountId.kind = "string"
                THEN getAccountById(accs, fileConfig[1].accountId.val)
                ELSE << >>
        hasName == /\ fileConfig # << >>
                   /\ fileConfig[1].kind = "object"
                   /\ fieldTruthy(fileConfig[1].accountName)
    IN IF byId # << >> THEN <<Returned(byId[1].id)>>
       ELSE IF ~hasName THEN << >>
       ELSE IF nameLookupThrows(accs, fileConfig[1].accountName)
            THEN <<Threw("TypeError")>>
       ELSE LET byName == getAccountByName(accs, fileConfig[1].accountName.val)
            IN IF byName # << >> THEN <<Returned(byName[1].id)>> ELSE << >>

\* faulty variant: the persisted mappings are consulted before the file
detectAccountForRepo_MappingsFirst(accs, maps, file, remote, repoPath) ==
    LET byMappings == detectByMappings(maps, remote, repoPath)
        byFile == detectByFile(accs, file)
    IN IF byMappings.value # Undefined THEN byMappings
       ELSE IF byFile # << >> THEN byFile[1]
       ELSE byMappings

\* detectAccountForRepo(repoPath)
detectAccountForRepo(accs, maps, file, remote, repoPath) ==
    LET byFile == detectByFile(accs, file) IN
    IF byFile # << >> THEN byFile[1]
    ELSE detectByMappings(maps, remote, repoPath)

detect(repoPath) ==
    detectAccountForRepo(accounts, mappings, files[repoPath],
                         remotes[repoPath], repoPath)

Detect(repoPath) ==
    /\ LET r == detect(repoPath)
       IN last' = Call("detect", repoPath, r.value, "", r.status)
    /\ UNCHANGED <<accounts, globalState, secretStorage, now, issued,
                   mappings, files, remotes>>

setMapping(repoPath, accountId, remotePattern) ==
    /\ mappings' = mapSet(mappings, [repoPath |-> repoPath,
                                     accountId |-> accountId,
                                     remotePattern |-> remotePattern])
    /\ globalState' = saveMappings(globalState, mappings')
    /\ last' = Call("setMapping", "", "", "", "")
    /\ UNCHANGED <<accounts, secretStorage, now, issued, files, remotes>>

removeMapping(repoPath) ==
    /\ mappings' = mapDelete(mappings, repoPath)
    /\ globalState' = saveMappings(globalState, mappings')
    /\ last' = Call("removeMapping", "", "", "", "")
    /\ UNCHANGED <<accounts, secretStorage, now, issued, files, remotes>>

\* faulty variant: the two properties of the written config are swapped
writtenFile_Swapped(account) ==
    JSON_stringify([accountId |-> account.name, accountName |-> account.id])

\* the file writeGitAccountFile leaves behind for an account it found
writtenFile(account) ==
    JSON_stringify([accountId |-> account.id, accountName |-> account.name])

\* faulty variant: the file is written whether or not the account exists
writeGitAccountFile_NoLookup(repoPath, accountId, ioOk) ==
    LET account == getAccountById(accounts, accountId) IN
    /\ files' = [files EXCEPT ![repoPath] =
                    JSON_stringify([accountId |-> accountId,
                                    accountName |-> Undefined])]
    /\ last' = Call("write", repoPath, accountId, "",
                    IF account = << >> THEN "Account not found" ELSE "ok")
    /\ UNCHANGED <<accounts, globalState, secretStorage, now, issued,
                   mappings, remotes>>

\* writeGitAccountFile(repoPath, accountId); ioOk: whether writeFileSync
\* succeeds (it throws, for instance, when repoPath is not writable)
writeGitAccountFile(repoPath, accountId, ioOk) ==
    LET account == getAccountById(accounts, accountId) IN
    /\ IF account = << >>
         THEN /\ last' = Call("write", repoPath, accountId, "", "Account not found")
              /\ UNCHANGED files
         ELSE IF ~ioOk
         THEN /\ last' = Call("write", repoPath, accountId, "", "IOError")
              /\ UNCHANGED files
         ELSE /\ files' = [files EXCEPT ![repoPath] = writtenFile(account[1])]
              /\ last' = Call("write", repoPath, accountId, "", "ok")
    /\ UNCHANGED <<accounts, globalState, secretStorage, now, issued,
                   mappings, remotes>>

\* environment: the .gitaccount file is edited, checked out or deleted
EditFile(repoPath, file) ==
    /\ files' = [files EXCEPT ![repoPath] = file]
    /\ last' = Call("editFile", "", "", "", "")
    /\ UNCHANGED <<accounts, globalState, secretStorage, now, issued,
                   mappings, remotes>>

\* environment: the repository's origin remote is set, changed or removed
SetRemote(repoPath, remote) ==
    /\ remotes' = [remotes EXCEPT ![repoPath] = remote]
    /\ last' = Call("setRemote", "", "", "", "")
    /\ UNCHANGED <<accounts, globalState, secretStorage, now, issued,
                   mappings, files>>

\* -------------------------------------------------------- StatusBarManager
\* refresh() with the workspace folder open at repoPath: the id is kept only
\* when it is the id of an account of the registry; a detect that throws
\* makes refresh reject before it assigns
refresh(current, accs, maps, file, remote, repoPath) ==
    LET detected == detectAccountForRepo(accs, maps, file, remote, repoPath)
        account == IF detected.status = "returned" /\ truthy(detected.value)
                   THEN getAccountById(accs, detected.value) ELSE << >>
    IN IF detected.status = "threw" THEN Threw(current)
       ELSE IF account # << >> THEN Returned(account[1].id)
       ELSE Returned(Undefined)

\* setAccount(accountId)
setAccount(current, accs, accountId) ==
    LET account == getAccountById(accs, accountId) IN
    IF account # << >> THEN account[1].id ELSE current

\* ---------------------------------------------------------------- commands
\* Each is the handler registerCommands registers, for the workspace folder
\* repoPath: the command function and, where the handler has one, the
\* refresh of the status bar that follows it.

\* gitManager.addAccount with the wizard completed for an SSH account: the
\* input box takes a name only when it is not blank and no account has it;
\* a failure of addSSHConfigEntry is caught and shown
AddAccountCommand(account, ts, rnd, fails, repoPath) ==
    /\ account.name # ""
    /\ getAccountByName(accounts, account.name) = << >>
    /\ addAccount(account, Undefined, ts, rnd)
    /\ sshConfig' =
          IF account.authType = "ssh" /\ truthy(account.sshHost)
          THEN addSSHConfigEntry(sshConfig,
                                 withId(account, generateId(ts, rnd)),
                                 fails).value
          ELSE sshConfig
    /\ currentAccountId' = refresh(currentAccountId, accounts', mappings,
                                   files[repoPath], remotes[repoPath],
                                   repoPath).value
    /\ UNCHANGED <<userConfig, ensuring, held>>

\* gitManager.removeAccount with an account of the list picked and the
\* removal confirmed
RemoveAccountCommand(k, repoPath) ==
    /\ k \in 1..Len(accounts)
    /\ removeAccount(accounts[k].id)
    /\ currentAccountId' = refresh(currentAccountId, accounts', mappings,
                                   files[repoPath], remotes[repoPath],
                                   repoPath).value
    /\ UNCHANGED <<gitVars, held>>

\* gitManager.switchAccount with an account of the list picked: the identity
\* is applied, the mapping saved and the status bar set to the account, all
\* inside one try; `fails` names the git command that exits non-zero
SwitchAccountCommand(k, fails, repoPath) ==
    /\ k \in 1..Len(accounts)
    /\ LET account == accounts[k]
           identity == setUserConfig(userConfig[repoPath], account.username,
                                     account.email, fails)
           origin == IF account.authType = "ssh" /\ identity.status = "returned"
                     THEN configureSSHForAccount(account, remotes[repoPath], fails)
                     ELSE Outcome(identity.status, << >>, remotes[repoPath])
       IN /\ userConfig' = [userConfig EXCEPT ![repoPath] = identity.value]
          /\ remotes' = [remotes EXCEPT ![repoPath] = origin.value]
          /\ IF origin.status = "threw"
               THEN /\ last' = Call("switch", repoPath, account.id, "", "threw")
                    /\ UNCHANGED <<mappings, globalState, currentAccountId>>
               ELSE /\ mappings' = mapSet(mappings,
                                          [repoPath |-> repoPath,
                                           accountId |-> account.id,
                                           remotePattern |-> Undefined])
                    /\ globalState' = saveMappings(globalState, mappings')
                    /\ currentAccountId' =
                          setAccount(currentAccountId, accounts, account.id)
                    /\ last' = Call("switch", repoPath, account.id, "",
                                    "returned")
    /\ UNCHANGED <<accounts, secretStorage, now, issued, files, sshConfig,
                   ensuring, held>>

\* gitManager.configureRepo with an account of the list picked and the
\* preference saved to the .gitaccount file: a write that throws ends the
\* handler before its refresh
ConfigureRepoCommand_File(k, ioOk, repoPath) ==
    /\ k \in 1..Len(accounts)
    /\ writeGitAccountFile(repoPath, accounts[k].id, ioOk)
    /\ currentAccountId' =
          IF ioOk
          THEN refresh(currentAccountId, accounts, mappings, files'[repoPath],
                       remotes[repoPath], repoPath).value
          ELSE currentAccountId
    /\ UNCHANGED <<gitVars, held>>

\* gitManager.configureRepo with the preference saved to the settings
ConfigureRepoCommand_Settings(k, repoPath) ==
    /\ k \in 1..Len(accounts)
    /\ setMapping(repoPath, accounts[k].id, Undefined)
    /\ currentAccountId' = refresh(currentAccountId, accounts, mappings',
                                   files[repoPath], remotes[repoPath],
                                   repoPath).value
    /\ UNCHANGED <<gitVars, held>>

\* refresh() alone: a command the user cancels, a saved .gitaccount
\* document, a change of the workspace folders
Refresh(repoPath) ==
    /\ LET shown == refresh(currentAccountId, accounts, mappings,
                            files[repoPath], remotes[repoPath], repoPath)
       IN /\ currentAccountId' = shown.value
          /\ last' = Call("refresh", repoPath, shown.value, "", shown.status)
    /\ UNCHANGED <<coreVars, remotes, gitVars, held>>

\* ------------------------------------------------------------------ inputs
RepoPaths == {"/repo/a", "/repo/b"}

\* display names a caller passes: two that differ only in case, and empty
Names == {"Work", "work", ""}

\* what Math.random().toString(36).substr(2, 9) yields
Randoms == {"k3x", "p7q"}

\* the pat argument: omitted, or a token
Pats == {Undefined, "ghp_x"}

\* ids a caller may pass to remove / update: those issued, and one never issued
UnknownId == "account_0_none"

KnownIds == issued \cup {UnknownId}

\* the keys an updates object carries: none, a new name, a new authType
UpdNames == {Undefined, "work"}

UpdAuthTypes == {Undefined, "ssh"}

\* the draft a caller passes for a display name and an authentication type:
\* an SSH draft carries a key path and a host alias, a token draft neither
DraftNamed(name, authType) ==
    Draft(name, "alice", "alice@co.com", authType,
          IF authType = "ssh" THEN "~/.ssh/id_work" ELSE Undefined,
          IF authType = "ssh" THEN "github.com-work" ELSE Undefined)

Init ==
    /\ accounts = << >>
    /\ globalState = [accounts |-> << >>, mappings |-> << >>]
    /\ secretStorage = {}
    /\ now = 1
    /\ issued = {}
    /\ mappings = << >>
    /\ files = [p \in RepoPaths |-> NoFile]
    /\ remotes = [p \in RepoPaths |-> Undefined]
    /\ last = Call("init", "", "", "", "")
    /\ userConfig = [p \in RepoPaths |-> NoUserConfig]
    /\ sshConfig = << >>
    /\ ensuring = << >>
    /\ held = << >>
    /\ currentAccountId = Undefined

Next ==
    \/ /\ \E name \in Names, authType \in AuthTypes, pat \in Pats,
             ts \in 1..MaxClock, rnd \in Randoms :
             addAccount(DraftNamed(name, authType), pat, ts, rnd)
       /\ UNCHANGED <<gitVars, uiVars>>
    \/ /\ \E id \in KnownIds : removeAccount(id)
       /\ UNCHANGED <<gitVars, uiVars>>
    \/ /\ \E id \in KnownIds, updName \in UpdNames,
             updAuthType \in UpdAuthTypes :
             updateAccount(id, updName, updAuthType)
       /\ UNCHANGED <<gitVars, uiVars>>

Spec == Init /\ [][Next]_vars

\* ------------------------------------------------------- resolver inputs
\* the repository whose file and remote the environment changes
WorkPath == "/repo/a"

\* the accounts added while the resolver is exercised
ResolverDrafts == {[name |-> "Work", rnd |-> "k3x"], [name |-> "Home", rnd |-> "p7q"]}

ResolverIds == {generateId(1, d.rnd) : d \in ResolverDrafts}

RemoteUrls == {Undefined, "git@github.com:acme/app.git", "git@gitlab.com:me/app.git"}

\* the remotePattern of a mapping keyed by the path: the work path's mapping
\* is a direct one that may carry a pattern, the other path's is there for
\* its pattern, which may be empty
MappedPatterns(p) ==
    IF p = WorkPath THEN {Undefined, "github.com:acme"} ELSE {"", "github.com:acme"}

\* the accounts a mapping keyed by the path is set to
MappedIds(p) == IF p = WorkPath THEN ResolverIds ELSE {generateId(1, "p7q")}

IdFields == {NoField, StringField(generateId(1, "k3x")), NumberField}

\* the name is that of the account the id does not belong to
NameFields == {NoField, StringField("home"), NumberField}

FileContents ==
    {FileOf(k, NoField, NoField) : k \in {"missing", "unreadable", "malformed", "null", "scalar"}}
    \cup {FileOf("object", i, n) : i \in IdFields, n \in NameFields}

NextResolver ==
    \/ /\ \E d \in ResolverDrafts :
             addAccount(DraftNamed(d.name, "ssh"), Undefined, 1, d.rnd)
       /\ UNCHANGED <<gitVars, uiVars>>
    \/ /\ \E id \in ResolverIds : removeAccount(id)
       /\ UNCHANGED <<gitVars, uiVars>>
    \/ /\ \E p \in RepoPaths :
             \E id \in MappedIds(p), pat \in MappedPatterns(p) :
                setMapping(p, id, pat)
       /\ UNCHANGED <<gitVars, uiVars>>
    \/ /\ \E p \in RepoPaths : removeMapping(p)
       /\ UNCHANGED <<gitVars, uiVars>>
    \/ /\ \E p \in RepoPaths : Detect(p)
       /\ UNCHANGED <<gitVars, uiVars>>
    \/ /\ \E id \in ResolverIds, ioOk \in BOOLEAN :
             writeGitAccountFile(WorkPath, id, ioOk)
       /\ UNCHANGED <<gitVars, uiVars>>
    \/ /\ \E f \in FileContents : EditFile(WorkPath, f)
       /\ UNCHANGED <<gitVars, uiVars>>
    \/ /\ \E r \in RemoteUrls : SetRemote(WorkPath, r)
       /\ UNCHANGED <<gitVars, uiVars>>

SpecResolver == Init /\ [][NextResolver]_vars

\* --------------------------------------------------------- identity inputs
\* the accounts whose identity is applied: the SSH account of the
\* specification's example, a second SSH account, a token account, and an SSH
\* account without a host alias
AppliedAccounts ==
    {withId(Draft("Work", "alice", "alice@co.com", "ssh", "~/.ssh/id_work",
                  "github.com-work"), generateId(1, "k3x")),
     withId(Draft("Home", "bob", "bob@home.org", "ssh", "~/.ssh/id_home",
                  "github.com-home"), generateId(1, "p7q")),
     withId(Draft("Token", "carol", "carol@co.com", "pat", Undefined,
                  Undefined), generateId(2, "k3x")),
     withId(Draft("Bare", "dave", "dave@co.com", "ssh", "~/.ssh/id_bare",
                  Undefined), generateId(2, "p7q"))}

\* what `git config --get remote.origin.url` yields: failure, nothing, the
\* SSH shorthand with the user git and with another user, a shorthand with
\* nothing after the colon, and an HTTPS URL
OriginUrls ==
    {Undefined, "", "git@github.com:alice/project.git",
     "alice@github.com:alice/project.git", "git@github.com:",
     "https://github.com/alice/project.git"}

NextIdentity ==
    \/ \E a \in AppliedAccounts, fails \in {"none", "user.name", "user.email"} :
          SetUserConfig(a.username, a.email, WorkPath, fails)
    \/ \E a \in AppliedAccounts, fails \in {"none", "set-url"} :
          ConfigureSSHForAccount(a, WorkPath, fails)
    \/ /\ \E r \in OriginUrls : SetRemote(WorkPath, r)
       /\ UNCHANGED <<gitVars, uiVars>>

SpecIdentity == Init /\ [][NextIdentity]_vars

\* -------------------------------------------------------- SSH config inputs
\* what ~/.ssh/config holds before a call: nothing; a block for the alias of
\* the Work account; a block for a longer alias; a comment that names the
\* alias; a block for another account's alias
SshConfigs ==
    {<< >>,
     <<"Host github.com-work", "    HostName github.com">>,
     <<"Host github.com-work2", "    HostName github.com">>,
     <<"# Host github.com-work">>,
     <<"Host github.com-home", "    User git">>}

\* the accounts an alias is ensured for: those above, and an SSH account with
\* an alias and no key path
SshAccounts ==
    AppliedAccounts \cup
    {withId(Draft("NoKey", "erin", "erin@co.com", "ssh", Undefined,
                  "github.com-erin"), generateId(3, "k3x"))}

NextSsh ==
    \/ \E a \in SshAccounts, fails \in {"none", "append"} :
          AddSSHConfigEntry(a, fails)
    \/ \E lines \in SshConfigs : EditSshConfig(lines)

SpecSsh == Init /\ [][NextSsh]_vars

NextSshRace ==
    \/ \E a \in SshAccounts : AddSSHConfigEntry_Check(a)
    \/ \E fails \in {"none", "append"} : AddSSHConfigEntry_Resume(fails)
    \/ \E lines \in SshConfigs : EditSshConfig(lines)

SpecSshRace == Init /\ [][NextSshRace]_vars

\* ---------------------------------------------------------- caller inputs
NextCaller ==
    \/ /\ \E d \in ResolverDrafts :
             addAccount(DraftNamed(d.name, "ssh"), Undefined, 1, d.rnd)
       /\ UNCHANGED <<gitVars, uiVars>>
    \/ \E id \in ResolverIds :
          /\ removeAccount(id)
          /\ held' = afterSplice(held,
                findIndex([i \in DOMAIN accounts |-> accounts[i].id = id]))
          /\ UNCHANGED <<gitVars, currentAccountId>>
    \/ /\ \E id \in ResolverIds : updateAccount(id, "work", Undefined)
       /\ UNCHANGED <<gitVars, uiVars>>
    \/ GetAccounts
    \/ \E k \in 1..MaxAccounts : CallerSplices(k)
    \/ \E k \in 1..MaxAccounts : CallerSetsName(k, "Mine")

SpecCaller == Init /\ [][NextCaller]_vars

\* ------------------------------------------------------ persistence inputs
NextPersist ==
    \/ /\ \E d \in ResolverDrafts :
             addAccount(DraftNamed(d.name, "ssh"), Undefined, 1, d.rnd)
       /\ UNCHANGED <<gitVars, uiVars>>
    \/ /\ \E id \in ResolverIds \cup {UnknownId} : removeAccount(id)
       /\ UNCHANGED <<gitVars, uiVars>>
    \/ /\ \E id \in ResolverIds \cup {UnknownId}, updName \in UpdNames :
             updateAccount(id, updName, Undefined)
       /\ UNCHANGED <<gitVars, uiVars>>
    \/ /\ \E p \in RepoPaths :
             \E id \in MappedIds(p), pat \in MappedPatterns(p) :
                setMapping(p, id, pat)
       /\ UNCHANGED <<gitVars, uiVars>>
    \/ /\ \E p \in RepoPaths : removeMapping(p)
       /\ UNCHANGED <<gitVars, uiVars>>
    \/ /\ Initialize
       /\ UNCHANGED <<gitVars, uiVars>>

SpecPersist == Init /\ [][NextPersist]_vars

\* ---------------------------------------------------------- command inputs
\* the .gitaccount files the user puts into the workspace folder: none, one
\* naming an account by id, one naming an account by name, one whose
\* accountName is no string
CommandFiles ==
    {NoFile,
     FileOf("object", StringField(generateId(1, "k3x")), NoField),
     FileOf("object", NoField, StringField("home")),
     FileOf("object", NoField, NumberField)}

CommandRemotes == {Undefined, "git@github.com:acme/app.git"}

NextCommands ==
    \/ \E d \in ResolverDrafts, fails \in {"none", "append"} :
          AddAccountCommand(DraftNamed(d.name, "ssh"), 1, d.rnd, fails, WorkPath)
    \/ \E k \in 1..MaxAccounts : RemoveAccountCommand(k, WorkPath)
    \/ \E k \in 1..MaxAccounts,
          fails \in {"none", "user.name", "user.email", "set-url"} :
          SwitchAccountCommand(k, fails, WorkPath)
    \/ \E k \in 1..MaxAccounts, ioOk \in BOOLEAN :
          ConfigureRepoCommand_File(k, ioOk, WorkPath)
    \/ \E k \in 1..MaxAccounts : ConfigureRepoCommand_Settings(k, WorkPath)
    \/ Refresh(WorkPath)
    \/ /\ \E f \in CommandFiles : EditFile(WorkPath, f)
       /\ UNCHANGED <<gitVars, uiVars>>
    \/ /\ \E r \in CommandRemotes : SetRemote(WorkPath, r)
       /\ UNCHANGED <<gitVars, uiVars>>

SpecCommands == Init /\ [][NextCommands]_vars

\* ============================================================ registry claims

\* some account of the registry carries the name, ignoring case
NameInUse(accs, name) ==
    \E i \in 1..Len(accs) : toLowerCase(accs[i].name) = toLowerCase(name)

\* C1: add(draft, secret?) rejects a draft whose name is empty or equals,
\* ignoring case, the name of an account already in the registry, and a
\* rejected add leaves the in-memory list, the persisted list and the secret
\* store unchanged.  (Stated of the add steps whose id is fresh, so that a
\* violation does not rest on an id collision.)
C1_AddRejectsBadName ==
    [][(/\ last'.op = "add"
        /\ last'.id \notin issued
        /\ (last'.name = "" \/ NameInUse(accounts, last'.name)))
          => (/\ last'.result = "rejected"
              /\ UNCHANGED <<accounts, globalState, secretStorage>>)]_vars

\* C2: in every state reachable by add, update and remove, no two accounts of
\* the registry have names that are equal ignoring case.  (Stated of accounts
\* with different ids, so that a violation does not rest on an id collision.)
C2_NamesUniqueIgnoringCase ==
    \A i, j \in 1..Len(accounts) :
        (i # j /\ accounts[i].id # accounts[j].id)
            => toLowerCase(accounts[i].name) # toLowerCase(accounts[j].name)

\* C6: after remove(id) has found and removed an account (and no record with
\* that id is left), the secret store holds no secret under that id, whatever
\* add and update calls came before.
C6_RemoveDeletesSecret ==
    (/\ last.op = "remove"
     /\ last.result = "true"
     /\ \A i \in 1..Len(accounts) : accounts[i].id # last.id)
        => ~hasToken(secretStorage, last.id)

\* C7: remove(id) followed by findById(id) yields absent; remove of an id not
\* in the registry returns false and leaves the account list, the persisted
\* list and the secret store unchanged.
C7_RemoveThenFindAbsent ==
    [][last'.op = "remove" =>
          IF \E i \in 1..Len(accounts) : accounts[i].id = last'.id
            THEN /\ last'.result = "true"
                 /\ getAccountById(accounts', last'.id) = << >>
            ELSE /\ last'.result = "false"
                 /\ UNCHANGED <<accounts, globalState, secretStorage>>]_vars

\* C8: every id assigned by add differs from every id assigned by an earlier
\* add of the process, removed accounts included, also within one timestamp
\* tick.
C8_IdsNeverReused ==
    [][last'.op = "add" => last'.id \notin issued]_vars

\* ============================================================ resolver claims

AccountSet == {accounts[i] : i \in 1..Len(accounts)}

MappingSet == {mappings[i] : i \in 1..Len(mappings)}

\* ids of the accounts the repository's file resolves to, as section 4.2 of
\* the specification reads it: by accountId when the file specifies one, else
\* by accountName ignoring case
FileResolvedIds(repoPath) ==
    LET f == files[repoPath] IN
    IF f.kind # "object" THEN {}
    ELSE IF f.accountId.kind # "undefined"
    THEN {a.id : a \in {b \in AccountSet :
                          f.accountId.kind = "string" /\ b.id = f.accountId.val}}
    ELSE {a.id : a \in {b \in AccountSet :
                          /\ f.accountName.kind = "string"
                          /\ toLowerCase(b.name) = toLowerCase(f.accountName.val)}}

\* ids of the accounts either lookup of strategy 1 could yield for the file
FileLookupIds(repoPath) ==
    LET f == files[repoPath] IN
    IF f.kind # "object" THEN {}
    ELSE {a.id : a \in {b \in AccountSet :
            \/ f.accountId.kind = "string" /\ b.id = f.accountId.val
            \/ /\ f.accountName.kind = "string"
               /\ toLowerCase(b.name) = toLowerCase(f.accountName.val)}}

\* the mappings whose non-empty remotePattern is a substring of the
\* repository's remote URL
PatternMatches(repoPath) ==
    {m \in MappingSet :
        /\ remotes[repoPath] # Undefined
        /\ m.remotePattern \notin {Undefined, ""}
        /\ includes(remotes[repoPath], m.remotePattern)}

DirectMappings(repoPath) == {m \in MappingSet : m.repoPath = repoPath}

\* C3: whenever the repository's .gitaccount file resolves to an existing
\* account A, detect(repoPath) returns A's id, whatever direct or
\* remote-pattern mapping to another account the table holds.  (Also when
\* "resolves" is read as either lookup finding an account: detect then
\* returns the id of an account the file names.)
C3_FileOverMappings ==
    last.op = "detect" =>
        /\ FileResolvedIds(last.path) # {}
              => (/\ last.result = "returned"
                  /\ last.id \in FileResolvedIds(last.path))
        /\ FileLookupIds(last.path) # {}
              => (/\ last.result = "returned"
                  /\ last.id \in FileLookupIds(last.path))

\* C3 witness: detect has returned the file's account while a direct mapping
\* and a matching remote-pattern mapping both point to another account.
C3_Witness ==
    /\ last.op = "detect"
    /\ last.result = "returned"
    /\ FileResolvedIds(last.path) = {last.id}
    /\ \E m \in DirectMappings(last.path) : m.accountId # last.id
    /\ \E m \in PatternMatches(last.path) :
          m.accountId # last.id /\ m.repoPath # last.path

\* C4: when no repository file resolves and some mapping has a non-empty
\* remotePattern that is a substring of the remote URL, detect(repoPath)
\* returns such a mapping's accountId, also when a direct mapping keyed by
\* repoPath points to a different account.
C4_PatternOverDirect ==
    (/\ last.op = "detect"
     /\ FileLookupIds(last.path) = {}
     /\ PatternMatches(last.path) # {})
        => (/\ last.result = "returned"
            /\ last.id \in {m.accountId : m \in PatternMatches(last.path)})

\* C5: detect(repoPath) never raises to its caller, whatever the .gitaccount
\* file holds and whether or not the remote URL can be fetched; with no file,
\* no remote-pattern match and no direct mapping it returns absent.
C5_DetectNeverRaises ==
    last.op = "detect"
        => (/\ last.result = "returned"
            /\ (/\ files[last.path].kind = "missing"
                /\ PatternMatches(last.path) = {}
                /\ DirectMappings(last.path) = {})
                   => last.id = Undefined)

\* C9: writeRepoAccountFile(path, id) followed by detect(path), with no
\* mappings in the table and the account still in the registry, returns id.
C9_WriteDetectRoundTrip ==
    (last.op = "detect" /\ mappings = << >>)
        => \A a \in AccountSet :
              files[last.path] = writtenFile(a)
                  => (last.result = "returned" /\ last.id = a.id)

\* C9 witness: detect has run on a repository whose file is the one written
\* for an account of the registry, with an empty mapping table.
C9_Witness ==
    /\ last.op = "detect"
    /\ mappings = << >>
    /\ \E a \in AccountSet :
          files[last.path] = writtenFile(a) /\ last.id = a.id

\* C10: writeRepoAccountFile(repoPath, accountId) for an accountId that is not
\* in the registry fails with a not-found error and changes no file.
C10_WriteUnknownAccount ==
    [][(last'.op = "write" /\ \A a \in AccountSet : a.id # last'.id)
          => (last'.result = "Account not found" /\ files' = files)]_vars

\* C10 witness: a write for an unknown account has failed over an existing
\* .gitaccount file.
C10_Witness ==
    /\ last.op = "write"
    /\ last.result = "Account not found"
    /\ \A a \in AccountSet : a.id # last.id
    /\ files[last.path].kind = "object"

\* C16: in strategy 1 of detect a file that specifies accountId is resolved
\* with getAccountById only, and accountName is resolved with
\* getAccountByName only when the file specifies no accountId; detect returns
\* at strategy 1 exactly when the lookup so chosen yields an existing
\* account, and otherwise returns what the mapping strategies yield.  (Stated
\* of files whose accountId and accountName are strings or absent, so that a
\* violation does not rest on the lookup that throws.)
C16_IdLookupExcludesName ==
    (/\ last.op = "detect"
     /\ files[last.path].accountId.kind # "number"
     /\ files[last.path].accountName.kind # "number")
        => /\ last.result = "returned"
           /\ IF FileResolvedIds(last.path) # {}
                THEN last.id \in FileResolvedIds(last.path)
                ELSE last.id = detectByMappings(mappings, remotes[last.path],
                                                last.path).value

\* ========================================================= persistence claim

\* C17: after every completed mutation (addAccount, removeAccount,
\* updateAccount; setMapping, removeMapping) the persisted account list
\* equals the in-memory list and the persisted mapping table equals the
\* in-memory table: a fresh registry and resolver initialised from the
\* persisted state hold the same accounts and the same mappings.
C17_PersistedEqualsMemory ==
    last.op \in {"add", "remove", "update", "setMapping", "removeMapping",
                 "initialize"}
        => /\ loadAccounts(globalState) = accounts
           /\ loadMappings(globalState) = mappings
           /\ globalState.accounts = accounts
           /\ globalState.mappings = fromEntries(mappings)

\* C17 witness: a mapping has just been removed from a table that still
\* holds one with a remote pattern, beside a registry of two accounts one of
\* which was renamed.
C17_Witness ==
    /\ last.op = "removeMapping"
    /\ Len(mappings) = 1
    /\ truthy(mappings[1].remotePattern)
    /\ Len(accounts) = 2
    /\ \E i \in 1..2 : accounts[i].name = "work"
    /\ loadMappings(globalState) = mappings

\* ============================================================ identity claims

\* the SSH shorthand user@host:path: a user and a host without '@', ':' or
\* '/', and a path that is not empty
IsShorthand(url) ==
    LET at == indexOf(url, "@", 1)
        colon == indexOf(url, ":", 1)
        slash == indexOf(url, "/", 1)
    IN /\ at >= 2
       /\ colon >= at + 2
       /\ colon < Len(url)
       /\ slash = 0 \/ slash > colon
       /\ indexOf(url, "@", at + 1) \notin (at + 1)..colon

\* the shorthand with only its host segment replaced
WithHost(url, host) ==
    LET at == indexOf(url, "@", 1)
        colon == indexOf(url, ":", 1)
    IN SubSeq(url, 1, at) \o host \o SubSeq(url, colon, Len(url))

\* C11: for an SSH account with a host alias, configureSSHForAccount on a
\* repository whose remote URL has the form user@host:path sets the remote to
\* the same URL with only the host replaced by account.sshHost; a URL not of
\* that form is left as it is; an absent remote causes no write and no error.
C11_RewritesOnlyHost ==
    [][(/\ last'.op = "configureSSHForAccount"
        /\ last'.account.authType = "ssh"
        /\ truthy(last'.account.sshHost))
          => LET url == remotes[last'.cwd] IN
             IF url = Undefined
             THEN /\ last'.result = "returned"
                  /\ \A i \in 1..Len(last'.ran) :
                        last'.ran[i] # "remote set-url origin"
                  /\ remotes' = remotes
             ELSE IF IsShorthand(url)
             THEN last'.fails = "none"
                    => /\ last'.result = "returned"
                       /\ remotes'[last'.cwd] =
                             WithHost(url, last'.account.sshHost)
             ELSE remotes' = remotes]_vars

\* C14: setUserConfig writes user.name first and user.email second; a failure
\* of either write is thrown to the caller and nothing is rolled back: when
\* the email write fails the name stays written, when the name write fails
\* the email is not written.
C14_NameThenEmailNoRollback ==
    [][last'.op = "setUserConfig"
          => LET before == userConfig[last'.cwd]
                 after == userConfig'[last'.cwd]
             IN /\ last'.fails = "none"
                      => /\ last'.result = "returned"
                         /\ last'.ran = <<"config user.name", "config user.email">>
                         /\ after = UserConfig(last'.account.username,
                                               last'.account.email)
                /\ last'.fails = "user.email"
                      => /\ last'.result = "threw"
                         /\ last'.ran = <<"config user.name", "config user.email">>
                         /\ after = UserConfig(last'.account.username,
                                               before.email)
                /\ last'.fails = "user.name"
                      => /\ last'.result = "threw"
                         /\ last'.ran = <<"config user.name">>
                         /\ after = before]_vars

\* C14 witness: the email write has failed after the name write succeeded,
\* and the repository is left with the new name beside another account's
\* email.
C14_Witness ==
    /\ last.op = "setUserConfig"
    /\ last.fails = "user.email"
    /\ last.result = "threw"
    /\ userConfig[last.cwd].name = last.account.username
    /\ userConfig[last.cwd].email \notin {Undefined, last.account.email}

\* ========================================================== SSH config claims

\* the host patterns a line of ssh_config declares: the words after `Host `
HostPatterns(line) ==
    IF Len(line) < 6 \/ SubSeq(line, 1, 5) # "Host " THEN {}
    ELSE LET places == 6..Len(line)
             words == {p \in places \X places :
                         /\ p[1] <= p[2]
                         /\ indexOf(SubSeq(line, p[1], p[2]), " ", 1) = 0
                         /\ p[1] = 6 \/ SubSeq(line, p[1] - 1, p[1] - 1) = " "
                         /\ \/ p[2] = Len(line)
                            \/ SubSeq(line, p[2] + 1, p[2] + 1) = " "}
         IN {SubSeq(line, p[1], p[2]) : p \in words}

\* the number of Host declarations for exactly the alias
HostBlocks(lines, alias) ==
    Cardinality({i \in 1..Len(lines) : alias \in HostPatterns(lines[i])})

\* the account is an SSH account with a host alias and a key path
Ensurable(account) ==
    /\ account.authType = "ssh"
    /\ truthy(account.sshHost)
    /\ truthy(account.sshKeyPath)

\* C12: starting from an SSH config with no Host declaration for the alias,
\* two addSSHConfigEntry calls in sequence for the same SSH account leave
\* exactly one Host block for account.sshHost.
C12_TwiceLeavesOneBlock ==
    [][(/\ last.op = "addSSHConfigEntry"
        /\ last.result = "returned"
        /\ Ensurable(last.account)
        /\ HostBlocks(last.before, last.account.sshHost) = 0
        /\ last'.op = "addSSHConfigEntry"
        /\ last'.result = "returned"
        /\ last'.account = last.account)
          => HostBlocks(sshConfig', last.account.sshHost) = 1]_vars

\* C13: addSSHConfigEntry skips the append only when the config already has
\* a Host declaration whose alias is exactly account.sshHost; after it
\* returns for an SSH account with alias and key path the config holds a Host
\* declaration for exactly that alias, whatever the file held before.
C13_SkipsOnlyOnExactAlias ==
    [][(/\ last'.op = "addSSHConfigEntry"
        /\ last'.result = "returned"
        /\ Ensurable(last'.account))
          => /\ last'.ran = << >>
                   => HostBlocks(sshConfig, last'.account.sshHost) >= 1
             /\ HostBlocks(sshConfig', last'.account.sshHost) >= 1]_vars

\* the only lines of the config that contain `Host <alias>` are Host
\* declarations for exactly the alias
OnlyDeclared(lines, alias) ==
    \A i \in 1..Len(lines) :
        includes(lines[i], "Host " \o alias) => alias \in HostPatterns(lines[i])

\* C19: addSSHConfigEntry calls for the same alias that are in flight at once,
\* interleaved at the await between the existence check and the append,
\* leave exactly one Host block for the alias once all have returned.
\* (Stated of configs in which nothing but a declaration of the alias
\* contains `Host <alias>`, so that a violation does not rest on the
\* substring test.)
C19_InFlightLeaveOneBlock ==
    (/\ last.op = "resume"
     /\ last.result = "returned"
     /\ ensuring = << >>
     /\ OnlyDeclared(sshConfig, last.account.sshHost))
        => HostBlocks(sshConfig, last.account.sshHost) = 1

\* ============================================================== caller claim

\* C15: getAccounts returns a copy the caller can change safely: no change
\* the caller makes to the returned array or to the account records in it
\* changes the registry's list (hence what getAccounts, getAccountById and
\* getAccountByName return later, and what the next save persists) or the
\* persisted list.
C15_ListIsCallerSafe ==
    [][last'.op \in {"callerSplices", "callerSetsName"}
          => /\ accounts' = accounts
             /\ globalState' = globalState]_vars

\* ======================================================= status bar claim

\* the id detect returns for the workspace folder when an account of the
\* registry has it, Undefined otherwise
DerivedAccountId ==
    LET detected == detect(WorkPath) IN
    IF \E a \in AccountSet : a.id = detected.value
    THEN detected.value ELSE Undefined

\* C18: the status bar's current account is a derived view of the resolver:
\* after every completed command (add account, remove account, switch
\* account, configure repository) currentAccountId is the id detect returns
\* for the workspace folder when an account has that id, and unset otherwise.
\* (Stated of commands that did not fail, in states where detect returns, so
\* that a violation does not rest on the lookup that throws.)
C18_StatusBarIsDerived ==
    (/\ last.op \in {"add", "remove", "switch", "write", "setMapping"}
     /\ last.result \notin {"threw", "IOError"}
     /\ detect(WorkPath).status = "returned")
        => currentAccountId = DerivedAccountId

====
